---------------------------- MODULE Spec2Model ----------------------------
(***************************************************************************)
(* A model of addrs.js: Ipv4Address and Ipv4Network.                       *)
(*                                                                         *)
(* JavaScript numbers are modelled exactly.  Every number the library      *)
(* handles is an integer of magnitude below 2^34, so a number is the       *)
(* record [hi, lo] standing for hi * 2^16 + lo with lo in 0 .. 2^16 - 1    *)
(* and hi any integer (floor representation, so a negative number has a    *)
(* negative hi).  The bitwise operators convert with ToInt32 / ToUint32    *)
(* and mask their shift count with 31, as ECMAScript defines them.         *)
(***************************************************************************)
EXTENDS Integers, Sequences, FiniteSets, TLC

VARIABLES
    a,        \* the network the methods are called on (this)
    b,        \* the network passed as the argument (network)
    res,      \* the last call and what it returned
    derived   \* how many results of split/merge were taken as an operand

vars == <<a, b, res, derived>>

\* ------------------------------------------------------------------------
\* Bounds of the model
\* ------------------------------------------------------------------------

\* split(q) is called with q at most this far from the prefix length
MaxSplitBits == 2

\* hosts() is called only on networks whose loop runs at most this often
MaxHosts == 6

\* the CIDR strings that are parsed, as <<octet, octet, octet, octet, prefix>>
CidrInputs ==
    { <<10, 47, 0, 0, 16>>, <<10, 47, 0, 0, 17>>, <<10, 47, 64, 0, 18>>,
      <<192, 168, 1, 0, 24>>, <<192, 168, 0, 0, 23>>, <<192, 168, 0, 0, 24>>,
      <<10, 0, 0, 5, 24>>, <<10, 0, 1, 0, 24>>, <<10, 0, 0, 0, 31>>,
      <<10, 0, 0, 1, 32>>, <<0, 0, 0, 0, 0>>, <<255, 255, 255, 0, 24>>,
      <<0, 0, 0, 0, 24>>, <<128, 0, 0, 0, 30>>, <<10, 47, 64, 0, 16>> }

\* how many times a result of split/merge is taken as an operand
MaxDerived == 1

\* ------------------------------------------------------------------------
\* JavaScript numbers
\* ------------------------------------------------------------------------

IPV4_MAX_PREFIXLEN == 32

Limb == 2^16

Half == 2^15

Num(h, l) == [hi |-> h, lo |-> l]

\* the number h * 2^16 + l, for any integers h and l
Norm(h, l) == Num(h + (l \div Limb), l % Limb)

\* a numeric literal
Lit(n) == Norm(0, n)

NumAdd(x, y) == Norm(x.hi + y.hi, x.lo + y.lo)

NumSub(x, y) == Norm(x.hi - y.hi, x.lo - y.lo)

NumLeq(x, y) == x.hi < y.hi \/ (x.hi = y.hi /\ x.lo <= y.lo)

NumLt(x, y) == x.hi < y.hi \/ (x.hi = y.hi /\ x.lo < y.lo)

MathAbs(x) == IF x.hi < 0 THEN NumSub(Lit(0), x) ELSE x

MathMin(x, y) == IF NumLeq(x, y) THEN x ELSE y

ToUint32(x) == Num(x.hi % Limb, x.lo)

ToInt32(x) == LET h == x.hi % Limb IN Num(IF h >= Half THEN h - Limb ELSE h, x.lo)

RECURSIVE And16(_, _, _)
And16(m, n, k) ==
    IF k = 0 THEN 0
    ELSE (m % 2) * (n % 2) + 2 * And16(m \div 2, n \div 2, k - 1)

RECURSIVE Or16(_, _, _)
Or16(m, n, k) ==
    IF k = 0 THEN 0
    ELSE (IF m % 2 = 1 \/ n % 2 = 1 THEN 1 ELSE 0) + 2 * Or16(m \div 2, n \div 2, k - 1)

\* x & y
BitAnd(x, y) ==
    ToInt32(Num(And16(x.hi % Limb, y.hi % Limb, 16), And16(x.lo, y.lo, 16)))

\* x | y
BitOr(x, y) ==
    ToInt32(Num(Or16(x.hi % Limb, y.hi % Limb, 16), Or16(x.lo, y.lo, 16)))

\* ~x
BitNot(x) == LET i == ToInt32(x) IN Num(-1 - i.hi, Limb - 1 - i.lo)

\* x << n
Shl(x, n) ==
    LET s == n % 32
        u == ToUint32(x)
    IN  IF s >= 16
        THEN ToInt32(Num((u.lo % 2^(32 - s)) * 2^(s - 16), 0))
        ELSE ToInt32(Num((u.hi % 2^(16 - s)) * 2^s + (u.lo \div 2^(16 - s)),
                         (u.lo % 2^(16 - s)) * 2^s))

\* x >>> n
UShr(x, n) ==
    LET s == n % 32
        u == ToUint32(x)
    IN  IF s >= 16
        THEN Num(0, u.hi \div 2^(s - 16))
        ELSE Num(u.hi \div 2^s, (u.hi % 2^s) * 2^(16 - s) + (u.lo \div 2^s))

\* x >> n
Sar(x, n) ==
    LET s == n % 32
        i == ToInt32(x)
    IN  IF s >= 16
        THEN Norm(0, i.hi \div 2^(s - 16))
        ELSE Num(i.hi \div 2^s, (i.hi % 2^s) * 2^(16 - s) + (i.lo \div 2^s))

\* Math.pow(2, n) for 0 <= n <= 32
Pow2(n) == IF n >= 16 THEN Num(2^(n - 16), 0) ELSE Num(0, 2^n)

\* parseInt(octet) * Math.pow(256, k) for an octet string of a small natural
OctetTimesPow256(o, k) ==
    CASE k = 0 -> Norm(0, o)
      [] k = 1 -> Norm(0, o * 256)
      [] k = 2 -> Norm(o, 0)
      [] OTHER -> Norm(o * 256, 0)

\* ------------------------------------------------------------------------
\* class Ipv4Address
\* ------------------------------------------------------------------------

Ipv4Address(int_repr) == [int_repr |-> int_repr]

integer(addr) == addr.int_repr

\* The dotted string is modelled as the sequence of the numbers it joins.
toIpStr(value) ==
    << BitAnd(Sar(value, 24), Lit(255)).lo,
       BitAnd(Sar(value, 16), Lit(255)).lo,
       BitAnd(Sar(value, 8), Lit(255)).lo,
       BitAnd(value, Lit(255)).lo >>

AddressToString(addr) == toIpStr(addr.int_repr)

RECURSIVE SumOctets(_, _)
SumOctets(octets, index) ==
    IF index > Len(octets) THEN Lit(0)
    ELSE NumAdd(OctetTimesPow256(octets[index], Len(octets) - index),
                SumOctets(octets, index + 1))

fromString(address) == Ipv4Address(SumOctets(address, 1))

\* ------------------------------------------------------------------------
\* class Ipv4Network
\* ------------------------------------------------------------------------

Ipv4Network(address, prefixlen) ==
    [ address   |-> address,
      prefixlen |-> prefixlen,
      netmask   |-> Shl(NumSub(Shl(Lit(1), prefixlen), Lit(1)),
                        IPV4_MAX_PREFIXLEN - prefixlen) ]

first(n, host) ==
    Ipv4Address(NumAdd(BitAnd(integer(n.address), n.netmask),
                       Lit(IF host THEN 1 ELSE 0)))

last(n, host) ==
    Ipv4Address(NumSub(NumAdd(BitAnd(integer(n.address), n.netmask),
                              BitNot(n.netmask)),
                       Lit(IF host THEN 1 ELSE 0)))

network(n) == first(n, FALSE)

broadcast(n) == last(n, FALSE)

netmask(n) == Ipv4Address(n.netmask)

RECURSIVE HostsLoop(_, _)
HostsLoop(i, lastInt) ==
    IF NumLeq(i, lastInt)
    THEN <<Ipv4Address(i)>> \o HostsLoop(NumAdd(i, Lit(1)), lastInt)
    ELSE <<>>

hosts(n) == HostsLoop(integer(first(n, TRUE)), integer(last(n, TRUE)))

\* what a call that may throw gives: the Error, or the networks returned
Threw == [threw |-> TRUE, nets |-> <<>>]

Returned(nets) == [threw |-> FALSE, nets |-> nets]

RECURSIVE SplitLoop(_, _, _, _)
SplitLoop(n, prefixlen, i, numNetworks) ==
    IF NumLt(Lit(i), numNetworks)
    THEN LET newNetworkIntRepr ==
                 Shl(NumAdd(UShr(integer(n.address), IPV4_MAX_PREFIXLEN - prefixlen),
                            Lit(i)),
                     IPV4_MAX_PREFIXLEN - prefixlen)
         IN  <<Ipv4Network(Ipv4Address(newNetworkIntRepr), prefixlen)>>
                 \o SplitLoop(n, prefixlen, i + 1, numNetworks)
    ELSE <<>>

\* split with the guard written < instead of <=
splitAcceptsEqual(n, prefixlen) ==
    IF prefixlen < n.prefixlen
    THEN Threw
    ELSE Returned(SplitLoop(n, prefixlen, 0, Pow2(prefixlen - n.prefixlen)))

split(n, prefixlen) ==
    IF prefixlen <= n.prefixlen
    THEN Threw
    ELSE Returned(SplitLoop(n, prefixlen, 0, Pow2(prefixlen - n.prefixlen)))

overlaps(this, other) ==
    /\ NumLeq(BitAnd(integer(other.address), integer(netmask(other))),
              BitOr(integer(this.address), BitNot(integer(netmask(this)))))
    /\ NumLeq(BitAnd(integer(this.address), integer(netmask(this))),
              BitOr(integer(other.address), BitNot(integer(netmask(other)))))

\* A JavaScript value in an arithmetic expression: a number, a function
\* object (a method that is named but not called), or NaN.
JsNumber(x) == [t |-> "number", v |-> x]

JsFunction == [t |-> "function", v |-> Lit(0)]

NaN == [t |-> "NaN", v |-> Lit(0)]

JsSub(x, y) ==
    IF x.t = "number" /\ y.t = "number" THEN JsNumber(NumSub(x.v, y.v)) ELSE NaN

JsAbs(x) == IF x.t = "number" THEN JsNumber(MathAbs(x.v)) ELSE NaN

JsEq(x, y) == x.t = "number" /\ y.t = "number" /\ x.v = y.v

isContiguous(this, other) ==
    \/ JsEq(JsAbs(JsSub(JsNumber(integer(first(this, FALSE))), JsFunction)),
            JsNumber(Lit(1)))
    \/ JsEq(JsAbs(JsSub(JsNumber(integer(last(this, FALSE))),
                        JsNumber(integer(first(other, FALSE))))),
            JsNumber(Lit(1)))

merge(this, other) ==
    IF ~isContiguous(this, other) THEN Threw
    ELSE IF this.prefixlen # other.prefixlen THEN Threw
    ELSE Returned(<<Ipv4Network(
                      Ipv4Address(MathMin(integer(this.address), integer(other.address))),
                      this.prefixlen - 1)>>)

fromCidr(cidr) ==
    Ipv4Network(fromString(SubSeq(cidr, 1, 4)), cidr[5])

NetworkToString(n) == AddressToString(n.address) \o <<n.prefixlen>>

\* ------------------------------------------------------------------------
\* A caller of the library: it parses two networks, calls the methods of
\* the one on the other one call at a time, and may go on with a network that split or merge
\* returned.
\* ------------------------------------------------------------------------

Result(op, q, host, threw, bool, addrs, nets) ==
    [ op |-> op, q |-> q, host |-> host, threw |-> threw, bool |-> bool,
      addrs |-> addrs, nets |-> nets ]

NoCall == Result("none", 0, FALSE, FALSE, FALSE, <<>>, <<>>)

AddrResult(op, host, addr) == Result(op, 0, host, FALSE, FALSE, <<addr>>, <<>>)

BoolResult(op, bool) == Result(op, 0, FALSE, FALSE, bool, <<>>, <<>>)

NetsResult(op, q, r) == Result(op, q, FALSE, r.threw, FALSE, <<>>, r.nets)

\* the number of turns of the loop of hosts(), when it is positive
HostCount(n) ==
    NumAdd(NumSub(integer(last(n, TRUE)), integer(first(n, TRUE))), Lit(1))

Init ==
    /\ a \in {fromCidr(c) : c \in CidrInputs}
    /\ b \in {fromCidr(c) : c \in CidrInputs}
    /\ res = NoCall
    /\ derived = 0

\* the caller has dealt with the result of its last call
Idle == res.op = "none"

\* the caller parses another network to call the methods on
FromCidr(cidr) ==
    /\ Idle
    /\ a' = fromCidr(cidr)
    /\ res' = NoCall
    /\ UNCHANGED <<b, derived>>

CallNetwork ==
    /\ Idle
    /\ res' = AddrResult("network", FALSE, network(a))
    /\ UNCHANGED <<a, b, derived>>

CallBroadcast ==
    /\ Idle
    /\ res' = AddrResult("broadcast", FALSE, broadcast(a))
    /\ UNCHANGED <<a, b, derived>>

CallFirst(host) ==
    /\ Idle
    /\ res' = AddrResult("first", host, first(a, host))
    /\ UNCHANGED <<a, b, derived>>

CallLast(host) ==
    /\ Idle
    /\ res' = AddrResult("last", host, last(a, host))
    /\ UNCHANGED <<a, b, derived>>

CallNetmask ==
    /\ Idle
    /\ res' = AddrResult("netmask", FALSE, netmask(a))
    /\ UNCHANGED <<a, b, derived>>

CallHosts ==
    /\ Idle
    /\ NumLeq(HostCount(a), Lit(MaxHosts))
    /\ res' = Result("hosts", 0, FALSE, FALSE, FALSE, hosts(a), <<>>)
    /\ UNCHANGED <<a, b, derived>>

CallSplit(q) ==
    /\ Idle
    /\ q <= a.prefixlen + MaxSplitBits
    /\ q >= a.prefixlen - MaxSplitBits
    /\ res' = NetsResult("split", q, split(a, q))
    /\ UNCHANGED <<a, b, derived>>

CallOverlaps ==
    /\ Idle
    /\ res' = BoolResult("overlaps", overlaps(a, b))
    /\ UNCHANGED <<a, b, derived>>

CallIsContiguous ==
    /\ Idle
    /\ res' = BoolResult("isContiguous", isContiguous(a, b))
    /\ UNCHANGED <<a, b, derived>>

CallMerge ==
    /\ Idle
    /\ res' = NetsResult("merge", 0, merge(a, b))
    /\ UNCHANGED <<a, b, derived>>

\* fromString(x.toString()) for an address x that the last call returned
RoundTripAddress(i) ==
    /\ res.op \in {"network", "broadcast", "first", "last", "netmask", "hosts"}
    /\ i \in 1..Len(res.addrs)
    /\ res' = Result("roundtrip", 0, FALSE, FALSE, FALSE,
                     <<res.addrs[i], fromString(AddressToString(res.addrs[i]))>>, <<>>)
    /\ UNCHANGED <<a, b, derived>>

\* fromCidr(n.toString()) for a network n that the last call returned
RoundTripNetwork(i) ==
    /\ res.op \in {"split", "merge"}
    /\ i \in 1..Len(res.nets)
    /\ res.nets[i].prefixlen >= 0
    /\ res' = Result("roundtripNet", 0, FALSE, FALSE, FALSE, <<>>,
                     <<res.nets[i], fromCidr(NetworkToString(res.nets[i]))>>)
    /\ UNCHANGED <<a, b, derived>>

\* the caller goes on with the first or the last network that split or
\* merge returned
TakeResult(i) ==
    /\ derived < MaxDerived
    /\ res.op \in {"split", "merge"}
    /\ i \in 1..Len(res.nets)
    /\ i \in {1, Len(res.nets)}
    /\ b' = res.nets[i]
    /\ derived' = derived + 1
    /\ res' = NoCall
    /\ UNCHANGED a

\* the caller is done with the result of the last call
Discard ==
    /\ ~Idle
    /\ res' = NoCall
    /\ UNCHANGED <<a, b, derived>>

\* the caller exchanges the roles of the two networks
Swap ==
    /\ Idle
    /\ a' = b
    /\ b' = a
    /\ res' = NoCall
    /\ UNCHANGED derived

Next ==
    \/ \E cidr \in CidrInputs : FromCidr(cidr)
    \/ CallNetwork
    \/ CallBroadcast
    \/ \E host \in BOOLEAN : CallFirst(host)
    \/ \E host \in BOOLEAN : CallLast(host)
    \/ CallNetmask
    \/ CallHosts
    \/ \E q \in 0..IPV4_MAX_PREFIXLEN : CallSplit(q)
    \/ CallOverlaps
    \/ CallIsContiguous
    \/ CallMerge
    \/ \E i \in 1..MaxHosts : RoundTripAddress(i)
    \/ \E i \in 1..(2^MaxSplitBits) : RoundTripNetwork(i)
    \/ \E i \in 1..(2^MaxSplitBits) : TakeResult(i)
    \/ Discard
    \/ Swap

Spec == Init /\ [][Next]_vars

\* ------------------------------------------------------------------------
\* Properties
\* ------------------------------------------------------------------------

\* the address an integer stands for, as an unsigned 32-bit value
Unsigned(x) == ToUint32(x)

\* u with its low 32 - p bits cleared, by arithmetic
ClearHostBits(u, p) ==
    LET k == 32 - p
    IN  IF k >= 16 THEN Num(u.hi - (u.hi % 2^(k - 16)), 0)
        ELSE Num(u.hi, u.lo - (u.lo % 2^k))

\* u with its low 32 - p bits set, by arithmetic
SetHostBits(u, p) ==
    LET k == 32 - p
    IN  IF k >= 16 THEN Num(u.hi - (u.hi % 2^(k - 16)) + 2^(k - 16) - 1, Limb - 1)
        ELSE Num(u.hi, u.lo - (u.lo % 2^k) + 2^k - 1)

AllOnes == Num(Limb - 1, Limb - 1)

RangeLo(n) == Unsigned(integer(network(n)))

RangeHi(n) == Unsigned(integer(broadcast(n)))

ValidPrefix(n) == n.prefixlen \in 0..IPV4_MAX_PREFIXLEN

Distance(x, y) == MathAbs(NumSub(x, y))

\* one range ends exactly one address before the other begins
Adjacent(m, n) ==
    \/ NumAdd(RangeHi(m), Lit(1)) = RangeLo(n)
    \/ NumAdd(RangeHi(n), Lit(1)) = RangeLo(m)

\* C1: split(q) with q > p returns 2^(q-p) networks of prefix length q, in
\* increasing order of base address, whose ranges [network(), broadcast()]
\* are disjoint and together exactly the parent's range.
C1_SplitPartitionsParent ==
    (res.op = "split" /\ ~res.threw /\ ValidPrefix(a)) =>
        LET kids == res.nets
            count == Len(kids)
        IN  /\ count = 2^(res.q - a.prefixlen)
            /\ \A i \in 1..count : kids[i].prefixlen = res.q
            /\ \A i \in 1..(count - 1) :
                   NumLt(Unsigned(integer(kids[i].address)),
                         Unsigned(integer(kids[i + 1].address)))
            /\ \A i \in 1..count : NumLeq(RangeLo(kids[i]), RangeHi(kids[i]))
            /\ RangeLo(kids[1]) = RangeLo(a)
            /\ RangeHi(kids[count]) = RangeHi(a)
            /\ \A i \in 1..(count - 1) :
                   RangeLo(kids[i + 1]) = NumAdd(RangeHi(kids[i]), Lit(1))

\* C2: a.overlaps(b) is true exactly when the closed unsigned intervals
\* [a.network(), a.broadcast()] and [b.network(), b.broadcast()] share an
\* address.
C2_OverlapsIffRangesIntersect ==
    (res.op = "overlaps" /\ ValidPrefix(a) /\ ValidPrefix(b)) =>
        (res.bool <=> (/\ NumLeq(RangeLo(b), RangeHi(a))
                       /\ NumLeq(RangeLo(a), RangeHi(b))))

\* C3: network() is the base address with its 32 - p host bits cleared and
\* broadcast() is the base address with its 32 - p host bits set, the top p
\* bits unchanged in both.
C3_NetworkAndBroadcastBits ==
    /\ (res.op = "network" /\ ValidPrefix(a)) =>
           Unsigned(integer(res.addrs[1]))
               = ClearHostBits(Unsigned(integer(a.address)), a.prefixlen)
    /\ (res.op = "broadcast" /\ ValidPrefix(a)) =>
           Unsigned(integer(res.addrs[1]))
               = SetHostBits(Unsigned(integer(a.address)), a.prefixlen)

\* the networks that exist in a state
Constructed == {a, b} \cup {res.nets[i] : i \in 1..Len(res.nets)}

\* C4: the netmask of every constructed network of prefix length p in 0..32
\* is p leading ones followed by 32 - p zeros.
C4_NetmaskIsLeadingOnes ==
    \A n \in Constructed :
        ValidPrefix(n) => Unsigned(n.netmask) = ClearHostBits(AllOnes, n.prefixlen)

\* C5: when a.merge(b) returns a network, its prefix length is p - 1 and its
\* base address is the smaller of a.network() and b.network().
C5_MergeBaseIsSmallerNetwork ==
    (res.op = "merge" /\ ~res.threw /\ ValidPrefix(a) /\ ValidPrefix(b)) =>
        /\ res.nets[1].prefixlen = a.prefixlen - 1
        /\ Unsigned(integer(res.nets[1].address)) = MathMin(RangeLo(a), RangeLo(b))

\* C6: a.isContiguous(b) is true exactly when |a.network() - b.broadcast()| = 1
\* or |a.broadcast() - b.network()| = 1 on the unsigned address values.
C6_IsContiguousIffDistanceOne ==
    (res.op = "isContiguous" /\ ValidPrefix(a) /\ ValidPrefix(b)) =>
        (res.bool <=> (\/ Distance(RangeLo(a), RangeHi(b)) = Lit(1)
                       \/ Distance(RangeHi(a), RangeLo(b)) = Lit(1)))

\* C7: a.merge(b) throws and returns no network whenever the unsigned ranges
\* of a and b are not adjacent, and whenever their prefix lengths differ.
C7_MergeRejectsNonAdjacent ==
    (/\ res.op = "merge"
     /\ ValidPrefix(a)
     /\ ValidPrefix(b)
     /\ (~Adjacent(a, b) \/ a.prefixlen # b.prefixlen)) =>
        (res.threw /\ res.nets = <<>>)

\* C8: split(q) with q <= p (q = p included) throws before it produces any
\* child network; a list is returned only when q > p.
C8_SplitRejectsNotLargerPrefix ==
    res.op = "split" =>
        /\ (res.q <= a.prefixlen) => (res.threw /\ res.nets = <<>>)
        /\ ~res.threw => res.q > a.prefixlen

\* C8 witness: split was called with the network's own prefix length and threw
C8_Witness ==
    /\ res.op = "split"
    /\ res.q = a.prefixlen
    /\ res.threw
    /\ derived > 0

\* C9: parsing the dotted-decimal rendering of an address gives an address
\* with the same integer value, for the addresses that network(), broadcast(),
\* first(), last(), netmask(), hosts() return and the bases of split() children.
C9_ParseOfRenderingIsSameInteger ==
    /\ res.op = "roundtrip" => integer(res.addrs[2]) = integer(res.addrs[1])
    /\ res.op = "roundtripNet" =>
           integer(res.nets[2].address) = integer(res.nets[1].address)

\* the addresses that the last call returned
Produced ==
    {res.addrs[i] : i \in 1..Len(res.addrs)}
        \cup {res.nets[i].address : i \in 1..Len(res.nets)}

\* C10: every address an operation produces has an integer in 0 .. 2^32 - 1.
C10_IntegersAreUnsigned ==
    \A x \in Produced : integer(x).hi >= 0 /\ integer(x).hi < Limb

=============================================================================
